---- MODULE Spec2Model ----
(***************************************************************************)
(* A model of src/app.py, the n8n MCP proxy: the bearer gate of /sse and   *)
(* /mcp, the message handler and its five tools, the upstream calls they   *)
(* make, and the keep-alive generator of the streaming endpoint.           *)
(*                                                                         *)
(* Python strings are sequences of one-character (or one-token) strings,   *)
(* so that startswith, split and the f-string concatenations are computed. *)
(* A Python value is a record [ty, v]: ty its type, v its content.         *)
(***************************************************************************)
EXTENDS Integers, Sequences, FiniteSets, TLC

\* ------------------------------------------------------------------ bounds
\* Requests (POST /mcp, GET /sse) the server serves at the same time.
MaxInFlight == 1
\* Keep-alive comments one streaming connection emits before the model stops it.
MaxKeepAlive == 2
\* Requests in service at once where the claims are about concurrent requests.
MaxConcurrent == 2
\* Invocations of delete_workflow one caller sends to a stateful upstream.
MaxDeletes == 3

Slots == 1..MaxInFlight

\* ------------------------------------------------------------ Python values
\* Absent is a key that a dict does not hold (not a value of Python).
Absent == [ty |-> "absent", v |-> <<>>]
PyNone == [ty |-> "none", v |-> <<>>]
PyStr(s) == [ty |-> "str", v |-> s]
PyTrue == [ty |-> "bool", v |-> <<"true">>]
PyFalse == [ty |-> "bool", v |-> <<"false">>]
PyInt(d) == [ty |-> "int", v |-> <<d>>]
PyDict(keys) == [ty |-> "dict", v |-> keys]
PyList(items) == [ty |-> "list", v |-> items]

\* Python truthiness: `not x` is ~Truthy(x).
Truthy(x) ==
    CASE x.ty = "none" -> FALSE
      [] x.ty = "absent" -> FALSE
      [] x.ty = "str" -> Len(x.v) > 0
      [] x.ty = "bool" -> x.v = <<"true">>
      [] x.ty = "int" -> x.v # <<"0">>
      [] OTHER -> Len(x.v) > 0

\* str.startswith
startswith(s, prefix) ==
    Len(s) >= Len(prefix) /\ SubSeq(s, 1, Len(prefix)) = prefix

\* s.split(" ", 1)[1]: what follows the first space of s (s holds one).
FirstSpace(s) == CHOOSE i \in 1..Len(s) : s[i] = " " /\ \A j \in 1..(i - 1) : s[j] # " "
split1(s) == SubSeq(s, FirstSpace(s) + 1, Len(s))

\* dict.get(key, default) on a record of values where a missing key is Absent.
Get(d, key, default) == IF d[key].ty = "absent" THEN default ELSE d[key]

\* str(x) inside an f-string.
Format(x) ==
    CASE x.ty = "none" -> <<"None">>
      [] x.ty = "str" -> x.v
      [] x.ty = "bool" -> IF x.v = <<"true">> THEN <<"True">> ELSE <<"False">>
      [] OTHER -> x.v

\* ------------------------------------------------------------------ config
N8N_URL == <<"http://n8n">>
N8N_API_KEY == <<"k", "1">>
MCP_BEARER == <<"s", "1">>

\* The headers of the management calls' sessions; the session of the webhook
\* call is created with none.
HEADERS == ("X-N8N-API-KEY" :> N8N_API_KEY) @@ ("Content-Type" :> <<"application/json">>)
NoHeaders == <<>>

\* ------------------------------------------------------------ the bearer gate
BearerPrefix == <<"B", "e", "a", "r", "e", "r", " ">>

\* Mutant of Unauthorized: the token after the prefix is not compared.
Unauthorized_PrefixOnly(auth) == ~startswith(auth, BearerPrefix)

\* not auth.startswith("Bearer ") or auth.split(" ", 1)[1] != MCP_BEARER
Unauthorized(auth) ==
    IF ~startswith(auth, BearerPrefix) THEN TRUE ELSE split1(auth) # MCP_BEARER

\* -------------------------------------------------------- text and JSON
RECURSIVE Digits(_)
\* str(n) of a natural number.
Digits(n) ==
    LET d == <<"0", "1", "2", "3", "4", "5", "6", "7", "8", "9">>
    IN  IF n < 10 THEN <<d[n + 1]>> ELSE Digits(n \div 10) \o <<d[(n % 10) + 1]>>

\* json.dumps of a value.
json_dumps(x) ==
    CASE x.ty = "none" -> <<"null">>
      [] x.ty = "str" -> <<"\"">> \o x.v \o <<"\"">>
      [] x.ty = "bool" -> x.v
      [] x.ty = "int" -> x.v
      [] x.ty = "list" -> <<"[">> \o x.v \o <<"]">>
      [] OTHER -> <<"{">> \o x.v \o <<"}">>

\* json.loads of a text: [ok, value]; ok is FALSE where it raises JSONDecodeError.
json_loads(text) ==
    IF Len(text) >= 2 /\ text[1] = "{" /\ text[Len(text)] = "}"
    THEN [ok |-> TRUE, value |-> PyDict(SubSeq(text, 2, Len(text) - 1))]
    ELSE IF Len(text) >= 2 /\ text[1] = "[" /\ text[Len(text)] = "]"
    THEN [ok |-> TRUE, value |-> PyList(SubSeq(text, 2, Len(text) - 1))]
    ELSE [ok |-> FALSE, value |-> PyNone]

\* -------------------------------------------------------- upstream client
\* What the upstream does with one request: an HTTP response, or no response
\* (the connection fails, or the client's timeout expires).
HttpReply(status, text) == [kind |-> "http", status |-> status, text |-> text]
ConnectFailure == [kind |-> "fail", text |-> <<"Cannot connect to host">>]
TimeoutFailure == [kind |-> "fail", text |-> <<>>]

\* A callee's outcome: a value returned, or an exception raised (e is str(e)).
Ok(value) == [raised |-> FALSE, value |-> value]
Raise(e) == [raised |-> TRUE, e |-> e]

\* str(HTTPException(status, detail))
StrHTTPException(status, detail) == Digits(status) \o <<":", " ">> \o detail

\* One request to the upstream, as the client session sends it.
Request(method, path, headers, body) ==
    [method |-> method, url |-> N8N_URL \o path, headers |-> headers, body |-> body]

_n8n_get(path) == Request("GET", path, HEADERS, <<>>)
_n8n_post(path, data) == Request("POST", path, HEADERS, json_dumps(data))
_n8n_patch(path, data) == Request("PATCH", path, HEADERS, json_dumps(data))
_n8n_delete(path) == Request("DELETE", path, HEADERS, <<>>)

\* The part of _n8n_get, _n8n_post and _n8n_patch that follows the response.
n8n_json_reply(reply) ==
    IF reply.kind = "fail" THEN Raise(reply.text)
    ELSE IF reply.status >= 400 THEN Raise(StrHTTPException(reply.status, reply.text))
    ELSE IF Len(reply.text) = 0 THEN Ok(PyDict(<<>>))
    ELSE IF json_loads(reply.text).ok THEN Ok(json_loads(reply.text).value)
    ELSE Raise(<<"Expecting value">>)

\* Mutant of n8n_delete_reply: the test of response.status is missing.
n8n_delete_reply_NoStatusCheck(reply) ==
    IF reply.kind = "fail" THEN Raise(reply.text)
    ELSE Ok([ok |-> TRUE, status |-> reply.status, body |-> reply.text])

\* The part of _n8n_delete that follows the response.
n8n_delete_reply(reply) ==
    IF reply.kind = "fail" THEN Raise(reply.text)
    ELSE IF reply.status >= 400 THEN Raise(StrHTTPException(reply.status, reply.text))
    ELSE Ok([ok |-> TRUE, status |-> reply.status, body |-> reply.text])

\* ------------------------------------------------------------------- tools
\* A tool runs to its return, or to the await of its one upstream request; the
\* <tool>_reply operator is the rest of the tool, run when the reply is in.
Return(result) == [await |-> FALSE, result |-> result]
Await(call) == [await |-> TRUE, call |-> call]

Success(data) == [success |-> TRUE, data |-> data]
\* {"success": False, "error": str(e)}
Failure(e) == [success |-> FALSE, error |-> e]

WorkflowsPath == <<"/rest/workflows">>

\* The tail of list_workflows, create_workflow and set_active after the await.
json_tool_reply(reply) ==
    IF n8n_json_reply(reply).raised
    THEN Failure(n8n_json_reply(reply).e)
    ELSE Success(n8n_json_reply(reply).value)

list_workflows == Await(_n8n_get(WorkflowsPath))

\* Mutant of create_workflow: the check of the workflow argument is missing.
create_workflow_NoCheck(workflow) == Await(_n8n_post(WorkflowsPath, workflow))

create_workflow(workflow) ==
    IF ~Truthy(workflow)
    THEN Return(Failure(<<"workflow", " parameter is required">>))
    ELSE Await(_n8n_post(WorkflowsPath, workflow))

set_active(workflow_id, active) ==
    IF ~Truthy(workflow_id)
    THEN Return(Failure(<<"workflow_id", " is required">>))
    ELSE Await(_n8n_patch(WorkflowsPath \o <<"/">> \o Format(workflow_id),
                          PyDict(<<"active", ":">> \o json_dumps(active))))

delete_workflow(workflow_id) ==
    IF ~Truthy(workflow_id)
    THEN Return(Failure(<<"workflow_id", " is required">>))
    ELSE Await(_n8n_delete(WorkflowsPath \o <<"/">> \o Format(workflow_id)))

delete_workflow_reply(reply) ==
    IF n8n_delete_reply(reply).raised
    THEN Failure(n8n_delete_reply(reply).e)
    ELSE Success(n8n_delete_reply(reply).value)

\* Mutant of run_webhook: the path is not required to start with "/".
run_webhook_NoSlashCheck(path, payload) ==
    IF ~Truthy(path) THEN Return(Failure(<<"path", " must start with /">>))
    ELSE IF path.ty # "str"
    THEN Return(Failure(<<"object has no attribute 'startswith'">>))
    ELSE Await(Request("POST", path.v, NoHeaders,
                       json_dumps(IF payload.ty = "none" THEN PyDict(<<>>) ELSE payload)))

\* Mutant of run_webhook: the session is created with HEADERS, as the
\* management calls' sessions are.
run_webhook_WithHeaders(path, payload) ==
    IF ~Truthy(path) THEN Return(Failure(<<"path", " must start with /">>))
    ELSE IF path.ty # "str"
    THEN Return(Failure(<<"object has no attribute 'startswith'">>))
    ELSE IF ~startswith(path.v, <<"/">>)
    THEN Return(Failure(<<"path", " must start with /">>))
    ELSE Await(Request("POST", path.v, HEADERS,
                       json_dumps(IF payload.ty = "none" THEN PyDict(<<>>) ELSE payload)))

\* A truthy path that is no string has no startswith: the AttributeError is
\* caught by the tool's own except.
run_webhook(path, payload) ==
    IF ~Truthy(path) THEN Return(Failure(<<"path", " must start with /">>))
    ELSE IF path.ty # "str"
    THEN Return(Failure(<<"object has no attribute 'startswith'">>))
    ELSE IF ~startswith(path.v, <<"/">>)
    THEN Return(Failure(<<"path", " must start with /">>))
    ELSE Await(Request("POST", path.v, NoHeaders,
                       json_dumps(IF payload.ty = "none" THEN PyDict(<<>>) ELSE payload)))

\* body = await response.json(), or await response.text() where that raises
\* (the reply is taken to be served as JSON whenever its text is JSON). The
\* status is not looked at.
run_webhook_reply(reply) ==
    IF reply.kind = "fail" THEN Failure(reply.text)
    ELSE [success |-> TRUE,
          status |-> reply.status,
          body |-> IF json_loads(reply.text).ok
                   THEN json_loads(reply.text).value
                   ELSE PyStr(reply.text)]

ToolNames == {"list_workflows", "create_workflow", "set_active", "delete_workflow",
              "run_webhook"}

\* The rest of the tool `name` once its upstream request is answered.
tool_reply(name, reply) ==
    CASE name = "delete_workflow" -> delete_workflow_reply(reply)
      [] name = "run_webhook" -> run_webhook_reply(reply)
      [] OTHER -> json_tool_reply(reply)

\* --------------------------------------------------------- message handler
\* A request body: shape "badjson" (no JSON), "list" (JSON, but no object) or
\* "dict" with the keys type, id and tool (Absent where the key is missing).
\* tool has a shape of its own: "absent", "str" (a JSON string), "null" or
\* "dict" with the keys name and arguments; so has arguments: "absent", "null",
\* "list" or "dict" with the five argument keys.

\* Mutant of ToolRegistry: the entry of run_webhook is missing.
ToolRegistry_WithoutRunWebhook ==
    << [name |-> "list_workflows", properties |-> <<>>, required |-> {}],
       [name |-> "create_workflow", properties |-> [workflow |-> "object"],
        required |-> {"workflow"}],
       [name |-> "set_active",
        properties |-> [workflow_id |-> "string", active |-> "boolean"],
        required |-> {"workflow_id"}],
       [name |-> "delete_workflow", properties |-> [workflow_id |-> "string"],
        required |-> {"workflow_id"}] >>

\* The tools announced in answer to an initialize message.
ToolRegistry ==
    << [name |-> "list_workflows", properties |-> <<>>, required |-> {}],
       [name |-> "create_workflow", properties |-> [workflow |-> "object"],
        required |-> {"workflow"}],
       [name |-> "set_active",
        properties |-> [workflow_id |-> "string", active |-> "boolean"],
        required |-> {"workflow_id"}],
       [name |-> "delete_workflow", properties |-> [workflow_id |-> "string"],
        required |-> {"workflow_id"}],
       [name |-> "run_webhook", properties |-> [path |-> "string", payload |-> "object"],
        required |-> {"path"}] >>

\* What handle_mcp_message comes to: a message returned, an exception raised,
\* or the await of the upstream request of a tool.
Done(body) == [k |-> "return", body |-> body]
Fault(e) == [k |-> "raise", e |-> e]
Pending(tool, call) == [k |-> "await", tool |-> tool, call |-> call]

\* message.get("id")
MessageId(message) == Get(message, "id", PyNone)

ToolResult(id, result) == [type |-> "tool_result", tool_call_id |-> id, result |-> result]

NoGet == <<"object has no attribute 'get'">>

\* params.get(key, default): params is the dict of the arguments, or {} where
\* the tool holds no "arguments" key.
ParamsGet(params, key, default) ==
    IF params.shape = "absent" THEN default ELSE Get(params, key, default)

\* Mutant of CallTool: a missing "active" defaults to False.
CallTool_ActiveDefaultsFalse(name, params) ==
    CASE name = "create_workflow" ->
           create_workflow(ParamsGet(params, "workflow", PyNone))
      [] name = "set_active" ->
           set_active(ParamsGet(params, "workflow_id", PyNone),
                      ParamsGet(params, "active", PyFalse))
      [] name = "delete_workflow" ->
           delete_workflow(ParamsGet(params, "workflow_id", PyNone))
      [] name = "run_webhook" ->
           run_webhook(ParamsGet(params, "path", PyNone),
                       ParamsGet(params, "payload", PyNone))

\* The tool named `name` called with the arguments of params.
CallTool(name, params) ==
    CASE name = "create_workflow" ->
           create_workflow(ParamsGet(params, "workflow", PyNone))
      [] name = "set_active" ->
           set_active(ParamsGet(params, "workflow_id", PyNone),
                      ParamsGet(params, "active", PyTrue))
      [] name = "delete_workflow" ->
           delete_workflow(ParamsGet(params, "workflow_id", PyNone))
      [] name = "run_webhook" ->
           run_webhook(ParamsGet(params, "path", PyNone),
                       ParamsGet(params, "payload", PyNone))

\* Mutant of tool_call: the chain of elifs ends in the call of list_workflows
\* instead of the "Unknown tool" result.
tool_call_ListsByDefault(message, tool_name, params) ==
    IF tool_name = PyStr(<<"list_workflows">>)
    THEN Pending("list_workflows", list_workflows.call)
    ELSE IF tool_name.ty = "str" /\ Len(tool_name.v) = 1
            /\ tool_name.v[1] \in ToolNames
    THEN IF params.shape \notin {"absent", "dict"}
         THEN Fault(NoGet)
         ELSE IF CallTool(tool_name.v[1], params).await
         THEN Pending(tool_name.v[1], CallTool(tool_name.v[1], params).call)
         ELSE Done(ToolResult(MessageId(message),
                              CallTool(tool_name.v[1], params).result))
    ELSE Pending("list_workflows", list_workflows.call)

\* The tool_call branch, given tool_name and params.
tool_call(message, tool_name, params) ==
    IF tool_name = PyStr(<<"list_workflows">>)
    THEN Pending("list_workflows", list_workflows.call)
    ELSE IF tool_name.ty = "str" /\ Len(tool_name.v) = 1
            /\ tool_name.v[1] \in ToolNames
    THEN IF params.shape \notin {"absent", "dict"}
         THEN Fault(NoGet)
         ELSE IF CallTool(tool_name.v[1], params).await
         THEN Pending(tool_name.v[1], CallTool(tool_name.v[1], params).call)
         ELSE Done(ToolResult(MessageId(message),
                              CallTool(tool_name.v[1], params).result))
    ELSE Done(ToolResult(MessageId(message),
                         [error |-> <<"Unknown tool: ">> \o Format(tool_name)]))

NoArguments == [shape |-> "absent"]

\* Mutant of handle_mcp_message: a message without a type is taken for a
\* tool_call.
handle_mcp_message_TypeDefaultsToToolCall(message) ==
    IF message.shape # "dict" THEN Fault(NoGet)
    ELSE IF message.type = PyStr(<<"initialize">>)
    THEN Done([type |-> "initialized", capabilities |-> [tools |-> ToolRegistry]])
    ELSE IF message.type = PyStr(<<"tool_call">>) \/ message.type.ty = "absent"
    THEN IF message.tool.shape = "absent"
         THEN tool_call(message, PyNone, NoArguments)
         ELSE IF message.tool.shape # "dict" THEN Fault(NoGet)
         ELSE tool_call(message, Get(message.tool, "name", PyNone),
                        message.tool.arguments)
    ELSE Done([type |-> "error",
               error |-> <<"Unknown message type: ">>
                         \o Format(Get(message, "type", PyNone))])

handle_mcp_message(message) ==
    IF message.shape # "dict" THEN Fault(NoGet)
    ELSE IF message.type = PyStr(<<"initialize">>)
    THEN Done([type |-> "initialized", capabilities |-> [tools |-> ToolRegistry]])
    ELSE IF message.type = PyStr(<<"tool_call">>)
    THEN IF message.tool.shape = "absent"
         THEN tool_call(message, PyNone, NoArguments)
         ELSE IF message.tool.shape # "dict" THEN Fault(NoGet)
         ELSE tool_call(message, Get(message.tool, "name", PyNone),
                        message.tool.arguments)
    ELSE Done([type |-> "error",
               error |-> <<"Unknown message type: ">>
                         \o Format(Get(message, "type", PyNone))])

\* ----------------------------------------------------------- POST /mcp
JSONResponse(status_code, content) == [status |-> status_code, content |-> content]

\* mcp_endpoint up to its response, or to the await of a tool's upstream request.
mcp_endpoint(auth, body) ==
    IF Unauthorized(auth) THEN Done(JSONResponse(401, [error |-> <<"Unauthorized">>]))
    ELSE IF body.shape = "badjson"
    THEN Done(JSONResponse(500, [error |-> <<"Expecting value">>]))
    ELSE IF handle_mcp_message(body).k = "raise"
    THEN Done(JSONResponse(500, [error |-> handle_mcp_message(body).e]))
    ELSE IF handle_mcp_message(body).k = "await"
    THEN handle_mcp_message(body)
    ELSE Done(JSONResponse(200, handle_mcp_message(body).body))

\* mcp_endpoint from the reply to the upstream request of `tool` on.
mcp_endpoint_reply(body, tool, reply) ==
    JSONResponse(200, ToolResult(MessageId(body), tool_reply(tool, reply)))

\* ------------------------------------------------------------- GET /sse
\* The middleware: TRUE where the request is answered 401 and goes no further.
bearer_auth(path, auth) == path = "/sse" /\ Unauthorized(auth)

PlainTextResponse(content, status_code) == [status |-> status_code, content |-> content]
StreamingResponse == [status |-> 200, content |-> <<"text/event-stream">>]

\* The first event of event_generator.
init_msg ==
    [type |-> "initialize", version |-> <<"1.0.0">>, capabilities |-> [tools |-> PyTrue]]
DataEvent(msg) == [kind |-> "data", data |-> msg]
KeepAlive == [kind |-> "comment", data |-> <<"keep-alive">>]

\* ------------------------------------------------------ GET / and /health
\* These two are written over the configuration cfg of the process, a record
\* of N8N_URL, N8N_API_KEY and MCP_BEARER, so that processes started with
\* different configurations can be compared.

\* The middleware of a process configured with cfg.
bearer_auth_under(cfg, path, auth) ==
    /\ path = "/sse"
    /\ IF ~startswith(auth, BearerPrefix) THEN TRUE ELSE split1(auth) # cfg.MCP_BEARER

\* Mutant of root: the bool(...) around `N8N_URL and N8N_API_KEY` is missing,
\* so n8n_connected is the value of the `and`: the key, where the URL is set.
root_WithoutBool(cfg) ==
    [service |-> <<"n8n-mcp-proxy">>, status |-> <<"operational">>, version |-> <<"2.0.0">>,
     endpoints |-> {"/", "/health", "/sse", "/mcp"},
     n8n_connected |-> IF Len(cfg.N8N_URL) = 0 THEN cfg.N8N_URL ELSE cfg.N8N_API_KEY]

\* The content root returns.
root(cfg) ==
    [service |-> <<"n8n-mcp-proxy">>, status |-> <<"operational">>, version |-> <<"2.0.0">>,
     endpoints |-> {"/", "/health", "/sse", "/mcp"},
     n8n_connected |-> Len(cfg.N8N_URL) > 0 /\ Len(cfg.N8N_API_KEY) > 0]

\* str.replace(sub, ""), on a text whose scheme is one token.
replace(s, sub) == SelectSeq(s, LAMBDA t : t # sub)

\* The request of health: _n8n_get("/rest/workflows?limit=1") in a session
\* with the headers of HEADERS.
health(cfg) ==
    [method |-> "GET", url |-> cfg.N8N_URL \o <<"/rest/workflows?limit=1">>,
     headers |-> ("X-N8N-API-KEY" :> cfg.N8N_API_KEY)
                 @@ ("Content-Type" :> <<"application/json">>),
     body |-> <<>>]

\* With no N8N_URL the URL is the bare path, which the client refuses before
\* it sends anything (InvalidURL): health answers from its except clause.
health_invalid_url ==
    JSONResponse(503, [status |-> <<"unhealthy">>, error |-> <<"/rest/workflows?limit=1">>])

\* health from the reply of the upstream on.
health_reply(cfg, reply) ==
    IF n8n_json_reply(reply).raised
    THEN JSONResponse(503, [status |-> <<"unhealthy">>, error |-> n8n_json_reply(reply).e])
    ELSE JSONResponse(200, [status |-> <<"healthy">>, n8n |-> <<"connected">>,
                            n8n_url |-> replace(replace(cfg.N8N_URL, "https://"), "http://")])

\* ------------------------------------------------------------------ inputs
\* Authorization headers: none (the header's default is ""), the secret after
\* "Bearer ", another token, the secret with no prefix, a longer token, and a
\* lower-case prefix.
NoAuth == <<>>
GoodAuth == BearerPrefix \o MCP_BEARER
AuthHeaders ==
    { NoAuth, GoodAuth, BearerPrefix \o <<"s", "2">>, MCP_BEARER,
      GoodAuth \o <<"x">>, <<"b", "e", "a", "r", "e", "r", " ">> \o MCP_BEARER }

Arguments(workflow, workflow_id, active, path, payload) ==
    [shape |-> "dict", workflow |-> workflow, workflow_id |-> workflow_id,
     active |-> active, path |-> path, payload |-> payload]
EmptyArguments == Arguments(Absent, Absent, Absent, Absent, Absent)
\* "arguments" missing, null, or a list.
OtherArguments(shape) ==
    [shape |-> shape, workflow |-> Absent, workflow_id |-> Absent, active |-> Absent,
     path |-> Absent, payload |-> Absent]

Message(type, id, tool) == [shape |-> "dict", type |-> type, id |-> id, tool |-> tool]
Tool(name, arguments) == [shape |-> "dict", name |-> name, arguments |-> arguments]
\* "tool" missing, null, or a string.
OtherTool(shape) == [shape |-> shape, name |-> Absent, arguments |-> OtherArguments("absent")]
\* A body that is no JSON object.
OtherBody(shape) == [shape |-> shape, type |-> Absent, id |-> Absent, tool |-> OtherTool("absent")]

ToolCall(id, name, arguments) ==
    Message(PyStr(<<"tool_call">>), id, Tool(PyStr(<<name>>), arguments))

Ids == {PyStr(<<"a">>), PyStr(<<"b">>)}
W1 == PyStr(<<"w", "1">>)
W2 == PyStr(<<"w", "2">>)
Hook == <<"h", "o", "o", "k">>

ListCalls ==
    { ToolCall(id, "list_workflows", EmptyArguments) : id \in Ids \cup {Absent} }
    \cup { ToolCall(PyStr(<<"a">>), "list_workflows", OtherArguments("null")) }

CreateCalls ==
    { ToolCall(PyStr(<<"a">>), "create_workflow", Arguments(w, Absent, Absent, Absent, Absent)) :
        w \in {Absent, PyNone, PyDict(<<>>), PyDict(<<"name">>), PyStr(<<"x">>)} }
    \cup { ToolCall(PyStr(<<"a">>), "create_workflow", OtherArguments(s)) :
             s \in {"absent", "null", "list"} }
    \cup { ToolCall(PyStr(<<"a">>), "create_workflow",
                    Arguments(PyDict(<<"name">>), Absent, Absent, PyStr(Hook), Absent)) }

SetActiveCalls ==
    { ToolCall(PyStr(<<"b">>), "set_active", Arguments(Absent, w, a, Absent, Absent)) :
        w \in {Absent, PyStr(<<>>), W1}, a \in {Absent, PyTrue, PyFalse} }
    \cup { ToolCall(PyStr(<<"b">>), "set_active", Arguments(Absent, PyInt("7"), Absent, Absent, Absent)),
           ToolCall(PyStr(<<"b">>), "set_active", Arguments(Absent, W1, PyStr(<<"no">>), Absent, Absent)) }

DeleteCalls ==
    { ToolCall(PyStr(<<"a">>), "delete_workflow", Arguments(Absent, w, Absent, Absent, Absent)) :
        w \in {Absent, PyStr(<<>>), W1, W2, PyInt("7")} }

WebhookCalls ==
    { ToolCall(PyStr(<<"b">>), "run_webhook", Arguments(Absent, Absent, Absent, p, q)) :
        p \in {Absent, PyStr(<<>>), PyStr(Hook), PyStr(<<"/">> \o Hook), PyInt("5")},
        q \in {Absent, PyDict(<<"k">>)} }
    \cup { ToolCall(PyStr(<<"b">>), "run_webhook",
                    Arguments(Absent, Absent, Absent, PyStr(<<"/">> \o Hook), PyStr(<<"x">>))) }

\* tool_call messages that name no registered tool, or no tool at all.
StrayCalls ==
    { ToolCall(PyStr(<<"a">>), "bogus", EmptyArguments),
      Message(PyStr(<<"tool_call">>), PyStr(<<"a">>), Tool(Absent, EmptyArguments)),
      Message(PyStr(<<"tool_call">>), PyStr(<<"b">>), Tool(PyInt("5"), EmptyArguments)),
      ToolCall(Absent, "List_Workflows", OtherArguments("null")),
      Message(PyStr(<<"tool_call">>), PyStr(<<"a">>), OtherTool("absent")),
      Message(PyStr(<<"tool_call">>), PyStr(<<"a">>), OtherTool("null")),
      Message(PyStr(<<"tool_call">>), PyStr(<<"a">>), OtherTool("str")) }

\* {"tool": "create_workflow", "arguments": {}}: no type, and tool a string.
BareToolBody == Message(Absent, Absent, OtherTool("str"))

OtherMessages ==
    { Message(PyStr(<<"initialize">>), Absent, OtherTool("absent")),
      Message(PyStr(<<"ping">>), PyStr(<<"a">>), OtherTool("absent")),
      Message(Absent, PyStr(<<"a">>), Tool(PyStr(<<"list_workflows">>), EmptyArguments)),
      BareToolBody, OtherBody("badjson"), OtherBody("list") }

Bodies ==
    ListCalls \cup CreateCalls \cup SetActiveCalls \cup DeleteCalls \cup WebhookCalls
    \cup StrayCalls \cup OtherMessages

\* What the upstream may answer to one request.
Replies ==
    { HttpReply(200, <<"[", "w1", "]">>), HttpReply(200, <<>>), HttpReply(200, <<"o", "k">>),
      HttpReply(404, <<"{", "not found", "}">>), HttpReply(500, <<"b", "o", "o", "m">>),
      ConnectFailure, TimeoutFailure }

\* The bodies sent with an Authorization header the gate refuses: the gate
\* reads no body, so three that would each do something stand for all.
ProbeBodies ==
    { ToolCall(PyStr(<<"a">>), "list_workflows", EmptyArguments),
      ToolCall(PyStr(<<"a">>), "create_workflow", EmptyArguments),
      Message(PyStr(<<"initialize">>), Absent, OtherTool("absent")) }

McpRequests ==
    { [path |-> "/mcp", auth |-> GoodAuth, body |-> b] : b \in Bodies }
    \cup { [path |-> "/mcp", auth |-> a, body |-> b] :
             a \in AuthHeaders \ {GoodAuth}, b \in ProbeBodies }

SseRequests == { [path |-> "/sse", auth |-> a, body |-> OtherBody("none")] : a \in AuthHeaders }

NoRequest == [path |-> "", auth |-> NoAuth, body |-> OtherBody("none")]

\* ------------------------------------------------------------------- state
\* One slot per request the server is serving; a slot is free again once its
\* response is delivered (or its stream closed).
VARIABLES
    pc,             \* slot -> where its request's task stands
    req,            \* slot -> the request (NoRequest when idle)
    awaiting,       \* slot -> the tool that awaits its upstream reply, or "none"
    calls,          \* slot -> the upstream requests sent for the request, in order
    replies,        \* slot -> what the upstream answered to them, in order
    resp,           \* slot -> the responses sent to the caller, in order
    events,         \* slot -> the events its stream has yielded, in order
    disconnected,   \* slot -> the caller of its stream has disconnected
    ran,            \* slot -> the parts of the program run for the request
    late,           \* slot -> the kinds of the events yielded after the caller disconnected
    config,         \* the configuration read from the environment at import
    audience        \* slot -> the streams that were listening when its response was made

vars == <<pc, req, awaiting, calls, replies, resp, events, disconnected, ran, late, config,
          audience>>

\* The streams that have announced themselves and whose caller is connected.
Listening == { q \in DOMAIN pc : pc[q] \in {"check", "sleep"} /\ ~disconnected[q] }

\* The configuration of the process: N8N_URL, N8N_API_KEY and MCP_BEARER.
Config(url, key, bearer) == [N8N_URL |-> url, N8N_API_KEY |-> key, MCP_BEARER |-> bearer]

Init ==
    /\ audience = [r \in Slots |-> {}]
    /\ pc = [r \in Slots |-> "idle"]
    /\ req = [r \in Slots |-> NoRequest]
    /\ awaiting = [r \in Slots |-> "none"]
    /\ calls = [r \in Slots |-> <<>>]
    /\ replies = [r \in Slots |-> <<>>]
    /\ resp = [r \in Slots |-> <<>>]
    /\ events = [r \in Slots |-> <<>>]
    /\ disconnected = [r \in Slots |-> FALSE]
    /\ ran = [r \in Slots |-> {}]
    /\ late = [r \in Slots |-> {}]
    /\ config = Config(N8N_URL, N8N_API_KEY, MCP_BEARER)

\* The parts of the program mcp_endpoint runs for a request, up to its first
\* response or await.
McpRan(request) ==
    IF Unauthorized(request.auth) THEN {"mcp_endpoint"}
    ELSE IF request.body.shape = "badjson" THEN {"mcp_endpoint", "request.json"}
    ELSE {"mcp_endpoint", "request.json", "handle_mcp_message"}
         \cup (IF handle_mcp_message(request.body).k = "await" THEN {"tool", "upstream"}
               ELSE IF /\ handle_mcp_message(request.body).k = "return"
                       /\ handle_mcp_message(request.body).body.type = "tool_result"
                       /\ "success" \in DOMAIN handle_mcp_message(request.body).body.result
               THEN {"tool"} ELSE {})

\* POST /mcp: the middleware lets it through, and mcp_endpoint runs to its
\* response, or to the await of the upstream reply.
McpRequest(r) ==
    /\ pc[r] = "idle"
    /\ \E request \in McpRequests :
         /\ ~bearer_auth(request.path, request.auth)
         /\ req' = [req EXCEPT ![r] = request]
         /\ ran' = [ran EXCEPT ![r] = {"bearer_auth"} \cup McpRan(request)]
         /\ IF mcp_endpoint(request.auth, request.body).k = "await"
            THEN /\ pc' = [pc EXCEPT ![r] = "upstream"]
                 /\ awaiting' = [awaiting EXCEPT ![r] = mcp_endpoint(request.auth, request.body).tool]
                 /\ calls' = [calls EXCEPT ![r] = Append(@, mcp_endpoint(request.auth, request.body).call)]
                 /\ UNCHANGED resp
            ELSE /\ pc' = [pc EXCEPT ![r] = "done"]
                 /\ resp' = [resp EXCEPT ![r] = Append(@, mcp_endpoint(request.auth, request.body).body)]
                 /\ UNCHANGED <<awaiting, calls>>
    /\ UNCHANGED <<replies, events, disconnected, late>>
    /\ UNCHANGED config
    /\ audience' = [audience EXCEPT ![r] = IF pc'[r] = "done" THEN Listening ELSE {}]

\* Mutant of UpstreamReply: a request that failed, or was answered with a
\* status of 400 or more, is sent a second time.
UpstreamReply_Retry(r) ==
    /\ pc[r] = "upstream"
    /\ \E reply \in Replies :
         /\ replies' = [replies EXCEPT ![r] = Append(@, reply)]
         /\ IF (reply.kind = "fail" \/ reply.status >= 400) /\ Len(calls[r]) < 2
            THEN /\ calls' = [calls EXCEPT ![r] = Append(@, calls[r][1])]
                 /\ UNCHANGED <<pc, awaiting, resp>>
            ELSE /\ resp' = [resp EXCEPT ![r] = Append(@, mcp_endpoint_reply(req[r].body, awaiting[r], reply))]
                 /\ pc' = [pc EXCEPT ![r] = "done"]
                 /\ awaiting' = [awaiting EXCEPT ![r] = "none"]
                 /\ UNCHANGED calls
    /\ UNCHANGED <<req, events, disconnected, ran, late>>
    /\ UNCHANGED config
    /\ audience' = [audience EXCEPT ![r] = IF pc'[r] = "done" THEN Listening ELSE {}]

\* Mutant of UpstreamReply: the message being handled is kept in one place for
\* all tasks, so the response is built from the message of another request
\* that is in flight, where there is one.
UpstreamReply_SharedMessage(r) ==
    /\ pc[r] = "upstream"
    /\ \E reply \in Replies :
         /\ replies' = [replies EXCEPT ![r] = Append(@, reply)]
         /\ resp' = [resp EXCEPT ![r] = Append(@,
                mcp_endpoint_reply(
                    IF \E q \in DOMAIN pc : q # r /\ pc[q] = "upstream"
                    THEN req[CHOOSE q \in DOMAIN pc : q # r /\ pc[q] = "upstream"].body
                    ELSE req[r].body,
                    awaiting[r], reply))]
    /\ pc' = [pc EXCEPT ![r] = "done"]
    /\ awaiting' = [awaiting EXCEPT ![r] = "none"]
    /\ UNCHANGED <<req, calls, events, disconnected, ran, late>>
    /\ UNCHANGED config
    /\ audience' = [audience EXCEPT ![r] = Listening]

\* The upstream answers (or fails) the request a tool awaits: the tool returns
\* its result and mcp_endpoint its response.
UpstreamReply(r) ==
    /\ pc[r] = "upstream"
    /\ \E reply \in Replies :
         /\ replies' = [replies EXCEPT ![r] = Append(@, reply)]
         /\ resp' = [resp EXCEPT ![r] = Append(@, mcp_endpoint_reply(req[r].body, awaiting[r], reply))]
    /\ pc' = [pc EXCEPT ![r] = "done"]
    /\ awaiting' = [awaiting EXCEPT ![r] = "none"]
    /\ UNCHANGED <<req, calls, events, disconnected, ran, late>>
    /\ UNCHANGED config
    /\ audience' = [audience EXCEPT ![r] = Listening]

\* GET /sse: the middleware answers 401, or sse_endpoint returns the stream.
SseRequest(r) ==
    /\ pc[r] = "idle"
    /\ \E request \in SseRequests :
         /\ req' = [req EXCEPT ![r] = request]
         /\ IF bearer_auth(request.path, request.auth)
            THEN /\ pc' = [pc EXCEPT ![r] = "done"]
                 /\ resp' = [resp EXCEPT ![r] = Append(@, PlainTextResponse(<<"Unauthorized">>, 401))]
                 /\ ran' = [ran EXCEPT ![r] = {"bearer_auth"}]
            ELSE /\ pc' = [pc EXCEPT ![r] = "announce"]
                 /\ resp' = [resp EXCEPT ![r] = Append(@, StreamingResponse)]
                 /\ ran' = [ran EXCEPT ![r] = {"bearer_auth", "sse_endpoint"}]
    /\ UNCHANGED <<awaiting, calls, replies, events, disconnected, late>>
    /\ UNCHANGED config
    /\ UNCHANGED audience

\* A stream yields one event; it is late if the caller has disconnected.
Yield(r, event) ==
    /\ events' = [events EXCEPT ![r] = Append(@, event)]
    /\ late' = [late EXCEPT ![r] = IF disconnected[r] THEN @ \cup {event.kind} ELSE @]

\* event_generator starts: it yields init_msg and enters the keep-alive loop.
SseAnnounce(r) ==
    /\ pc[r] = "announce"
    /\ Yield(r, DataEvent(init_msg))
    /\ pc' = [pc EXCEPT ![r] = "check"]
    /\ ran' = [ran EXCEPT ![r] = @ \cup {"event_generator"}]
    /\ UNCHANGED <<req, awaiting, calls, replies, resp, disconnected>>
    /\ UNCHANGED config
    /\ UNCHANGED audience

\* Mutant of SseCheck: the loop also ends once a tool has reported an error to
\* some caller (an error flag shared by the tasks).
SseCheck_BreaksOnToolError(r) ==
    /\ pc[r] = "check"
    /\ pc' = [pc EXCEPT ![r] =
                IF \/ disconnected[r]
                   \/ \E q \in DOMAIN pc :
                        /\ req[q].path = "/mcp"
                        /\ pc[q] = "done"
                        /\ resp[q][1].status = 200
                        /\ resp[q][1].content.type = "tool_result"
                        /\ "error" \in DOMAIN resp[q][1].content.result
                THEN "closed" ELSE "sleep"]
    /\ UNCHANGED <<req, awaiting, calls, replies, resp, events, disconnected, ran, late>>
    /\ UNCHANGED config
    /\ UNCHANGED audience

\* The top of the loop: break if request.is_disconnected(), else sleep.
\* (Neither it nor the sleep raises anything but CancelledError, so the
\* generator's except Exception clause never runs.)
SseCheck(r) ==
    /\ pc[r] = "check"
    /\ pc' = [pc EXCEPT ![r] = IF disconnected[r] THEN "closed" ELSE "sleep"]
    /\ UNCHANGED <<req, awaiting, calls, replies, resp, events, disconnected, ran, late>>
    /\ UNCHANGED config
    /\ UNCHANGED audience

KeepAlives(r) == Len(SelectSeq(events[r], LAMBDA e : e.kind = "comment"))

\* The sleep of 30 seconds ends: the generator yields the keep-alive comment.
SseWake(r) ==
    /\ pc[r] = "sleep"
    /\ KeepAlives(r) < MaxKeepAlive
    /\ Yield(r, KeepAlive)
    /\ pc' = [pc EXCEPT ![r] = "check"]
    /\ UNCHANGED <<req, awaiting, calls, replies, resp, disconnected, ran>>
    /\ UNCHANGED config
    /\ UNCHANGED audience

\* The caller of an open stream disconnects.
CallerDisconnect(r) ==
    /\ pc[r] \in {"announce", "check", "sleep"}
    /\ ~disconnected[r]
    /\ disconnected' = [disconnected EXCEPT ![r] = TRUE]
    /\ UNCHANGED <<pc, req, awaiting, calls, replies, resp, events, ran, late>>
    /\ UNCHANGED config
    /\ UNCHANGED audience

\* The server cancels the task of a stream whose caller is gone: CancelledError
\* is raised at the generator's await and caught by its except clause, or the
\* generator is never started.
SseCancel(r) ==
    /\ pc[r] \in {"announce", "check", "sleep"}
    /\ disconnected[r]
    /\ pc' = [pc EXCEPT ![r] = "closed"]
    /\ UNCHANGED <<req, awaiting, calls, replies, resp, events, disconnected, ran, late>>
    /\ UNCHANGED config
    /\ UNCHANGED audience

\* The response is delivered, or the stream closed: the slot is free again.
Finish(r) ==
    /\ pc[r] \in {"done", "closed"}
    /\ pc' = [pc EXCEPT ![r] = "idle"]
    /\ req' = [req EXCEPT ![r] = NoRequest]
    /\ awaiting' = [awaiting EXCEPT ![r] = "none"]
    /\ calls' = [calls EXCEPT ![r] = <<>>]
    /\ replies' = [replies EXCEPT ![r] = <<>>]
    /\ resp' = [resp EXCEPT ![r] = <<>>]
    /\ events' = [events EXCEPT ![r] = <<>>]
    /\ disconnected' = [disconnected EXCEPT ![r] = FALSE]
    /\ ran' = [ran EXCEPT ![r] = {}]
    /\ late' = [late EXCEPT ![r] = {}]
    /\ UNCHANGED config
    /\ audience' = [q \in DOMAIN audience |-> IF q = r THEN {} ELSE audience[q] \ {r}]

Next ==
    \E r \in Slots :
        \/ McpRequest(r)
        \/ UpstreamReply(r)
        \/ SseRequest(r)
        \/ SseAnnounce(r)
        \/ SseCheck(r)
        \/ SseWake(r)
        \/ CallerDisconnect(r)
        \/ SseCancel(r)
        \/ Finish(r)

Spec == Init /\ [][Next]_vars

\* ------------------------------------------------- requests served together
\* The same server with MaxConcurrent requests in service at once: each request
\* has a task of its own, and the tasks share nothing but the configuration.
\* The callers hold the secret and send list_workflows under two ids, three
\* invocations that end in an error (of validation, of an unknown tool, of the
\* upstream), or open a stream.
ConcSlots == 1..MaxConcurrent

ConcBodies ==
    { ToolCall(id, "list_workflows", EmptyArguments) : id \in Ids }
    \cup { ToolCall(PyStr(<<"a">>), "create_workflow", EmptyArguments),
           ToolCall(PyStr(<<"a">>), "bogus", EmptyArguments),
           ToolCall(PyStr(<<"a">>), "delete_workflow",
                    Arguments(Absent, W1, Absent, Absent, Absent)) }

ConcRequests ==
    { [path |-> "/mcp", auth |-> GoodAuth, body |-> b] : b \in ConcBodies }
    \cup { [path |-> "/sse", auth |-> GoodAuth, body |-> OtherBody("none")] }

ConcReplies ==
    { HttpReply(200, <<"[", "w1", "]">>), HttpReply(404, <<"{", "not found", "}">>),
      TimeoutFailure }

ConcInit ==
    /\ audience = [r \in ConcSlots |-> {}]
    /\ pc = [r \in ConcSlots |-> "idle"]
    /\ req = [r \in ConcSlots |-> NoRequest]
    /\ awaiting = [r \in ConcSlots |-> "none"]
    /\ calls = [r \in ConcSlots |-> <<>>]
    /\ replies = [r \in ConcSlots |-> <<>>]
    /\ resp = [r \in ConcSlots |-> <<>>]
    /\ events = [r \in ConcSlots |-> <<>>]
    /\ disconnected = [r \in ConcSlots |-> FALSE]
    /\ ran = [r \in ConcSlots |-> {}]
    /\ late = [r \in ConcSlots |-> {}]
    /\ config = Config(N8N_URL, N8N_API_KEY, MCP_BEARER)

ConcNext ==
    \E r \in ConcSlots :
        \/ McpRequest(r) /\ req'[r] \in ConcRequests
        \/ UpstreamReply(r) /\ replies'[r][Len(replies'[r])] \in ConcReplies
        \/ SseRequest(r) /\ req'[r] \in ConcRequests
        \/ SseAnnounce(r)
        \/ SseCheck(r)
        \/ SseWake(r)
        \/ CallerDisconnect(r)
        \/ SseCancel(r)
        \/ Finish(r)

ConcSpec == ConcInit /\ [][ConcNext]_vars

\* ------------------------------------------- deletes at a stateful upstream
\* One caller sends up to MaxDeletes invocations of delete_workflow, one per
\* slot (no slot is used again), to an upstream that holds the workflows w1
\* and w2 at first, answers the DELETE of a workflow it holds with 200 and
\* drops it, and answers the DELETE of a workflow it does not hold with 404.
DelSlots == 1..MaxDeletes

DelRequests ==
    { [path |-> "/mcp", auth |-> GoodAuth,
       body |-> ToolCall(PyStr(<<"a">>), "delete_workflow",
                         Arguments(Absent, w, Absent, Absent, Absent))] : w \in {W1, W2} }

Deleted200 == HttpReply(200, <<>>)
NotFound404 == HttpReply(404, <<"{", "not found", "}">>)

\* The upstream has dropped the resource of url: a DELETE of it was answered 200.
Dropped(url) ==
    \E q \in DelSlots :
        /\ Len(replies[q]) = 1
        /\ calls[q][1].url = url
        /\ replies[q][1] = Deleted200

DelInit ==
    /\ audience = [r \in DelSlots |-> {}]
    /\ pc = [r \in DelSlots |-> "idle"]
    /\ req = [r \in DelSlots |-> NoRequest]
    /\ awaiting = [r \in DelSlots |-> "none"]
    /\ calls = [r \in DelSlots |-> <<>>]
    /\ replies = [r \in DelSlots |-> <<>>]
    /\ resp = [r \in DelSlots |-> <<>>]
    /\ events = [r \in DelSlots |-> <<>>]
    /\ disconnected = [r \in DelSlots |-> FALSE]
    /\ ran = [r \in DelSlots |-> {}]
    /\ late = [r \in DelSlots |-> {}]
    /\ config = Config(N8N_URL, N8N_API_KEY, MCP_BEARER)

DelNext ==
    \E r \in DelSlots :
        \/ McpRequest(r) /\ req'[r] \in DelRequests
        \/ /\ UpstreamReply(r)
           /\ replies'[r][1] = IF Dropped(calls[r][1].url) THEN NotFound404 ELSE Deleted200

DelSpec == DelInit /\ [][DelNext]_vars

\* ------------------------------------------- two processes, two secrets
\* Two processes of the program, started with configurations that differ at
\* most in the values of N8N_API_KEY and MCP_BEARER (each key set or unset in
\* both), receive the same requests to / and /health, and the upstream answers
\* both alike. pc, req, calls, replies and resp hold one entry per process.
Runs == {"first", "second"}

Urls == { <<>>, <<"http://", "n8n">>, <<"https://", "n8n">> }
\* N8N_API_KEY: unset (""), or a key.
Keys == { <<>>, <<"k", "1">>, <<"k", "2">> }
\* MCP_BEARER: a secret, or the default where it is unset.
Bearers == { <<"s", "1">>, <<"s", "2">>, <<"change-me">> }

InfoPaths == {"/", "/health"}

InfoInit ==
    /\ audience = [p \in Runs |-> {}]
    /\ pc = [p \in Runs |-> "idle"]
    /\ req = [p \in Runs |-> NoRequest]
    /\ awaiting = [p \in Runs |-> "none"]
    /\ calls = [p \in Runs |-> <<>>]
    /\ replies = [p \in Runs |-> <<>>]
    /\ resp = [p \in Runs |-> <<>>]
    /\ events = [p \in Runs |-> <<>>]
    /\ disconnected = [p \in Runs |-> FALSE]
    /\ ran = [p \in Runs |-> {}]
    /\ late = [p \in Runs |-> {}]
    /\ \E url \in Urls, k1 \in Keys, k2 \in Keys, b1 \in Bearers, b2 \in Bearers :
         /\ (k1 = <<>>) <=> (k2 = <<>>)
         /\ config = [p \in Runs |-> IF p = "first" THEN Config(url, k1, b1)
                                                     ELSE Config(url, k2, b2)]

\* What a process does with a request to / or /health, up to its response or
\* to the await of the upstream's reply.
InfoStep(p, path, auth) ==
    IF bearer_auth_under(config[p], path, auth)
    THEN Done(PlainTextResponse(<<"Unauthorized">>, 401))
    ELSE IF path = "/" THEN Done(JSONResponse(200, root(config[p])))
    ELSE IF config[p].N8N_URL = <<>> THEN Done(health_invalid_url)
    ELSE Pending("health", health(config[p]))

\* GET / or GET /health arrives at both processes.
InfoRequest ==
    /\ \A p \in Runs : pc[p] = "idle"
    /\ \E path \in InfoPaths, auth \in AuthHeaders :
         /\ req' = [p \in Runs |-> [path |-> path, auth |-> auth, body |-> OtherBody("none")]]
         /\ pc' = [p \in Runs |->
                     IF InfoStep(p, path, auth).k = "await" THEN "upstream" ELSE "done"]
         /\ awaiting' = [p \in Runs |->
                     IF InfoStep(p, path, auth).k = "await" THEN "health" ELSE "none"]
         /\ calls' = [p \in Runs |->
                     IF InfoStep(p, path, auth).k = "await"
                     THEN <<InfoStep(p, path, auth).call>> ELSE <<>>]
         /\ resp' = [p \in Runs |->
                     IF InfoStep(p, path, auth).k = "await"
                     THEN <<>> ELSE <<InfoStep(p, path, auth).body>>]
         /\ ran' = [p \in Runs |->
                     {"bearer_auth"} \cup (IF path = "/" THEN {"root"} ELSE {"health"})]
    /\ UNCHANGED <<replies, events, disconnected, late, config>>
    /\ UNCHANGED audience

\* The upstream answers the request of health, alike for both processes.
InfoReply ==
    /\ \A p \in Runs : pc[p] = "upstream"
    /\ \E reply \in Replies :
         /\ replies' = [p \in Runs |-> <<reply>>]
         /\ resp' = [p \in Runs |-> <<health_reply(config[p], reply)>>]
    /\ pc' = [p \in Runs |-> "done"]
    /\ awaiting' = [p \in Runs |-> "none"]
    /\ UNCHANGED <<req, calls, events, disconnected, ran, late, config>>
    /\ UNCHANGED audience

\* The responses are delivered.
InfoFinish ==
    /\ \A p \in Runs : pc[p] = "done"
    /\ pc' = [p \in Runs |-> "idle"]
    /\ req' = [p \in Runs |-> NoRequest]
    /\ calls' = [p \in Runs |-> <<>>]
    /\ replies' = [p \in Runs |-> <<>>]
    /\ resp' = [p \in Runs |-> <<>>]
    /\ ran' = [p \in Runs |-> {}]
    /\ UNCHANGED <<awaiting, events, disconnected, late, config>>
    /\ UNCHANGED audience

InfoNext == InfoRequest \/ InfoReply \/ InfoFinish

InfoSpec == InfoInit /\ [][InfoNext]_vars

\* ------------------------------------------------------------------ claims
\* What the claims say of a request, in their own words.

\* The text sub occurs in the text s.
Contains(s, sub) ==
    \E i \in 0..(Len(s) - Len(sub)) : SubSeq(s, i + 1, i + Len(sub)) = sub

\* The header is absent, lacks the "Bearer " prefix, or its token is not the secret.
BadCredential(auth) ==
    \/ auth = <<>>
    \/ Len(auth) < 7
    \/ \E i \in 1..7 : auth[i] # BearerPrefix[i]
    \/ SubSeq(auth, 8, Len(auth)) # MCP_BEARER

\* An authenticated POST /mcp.
Authenticated(r) == req[r].path = "/mcp" /\ req[r].auth = BearerPrefix \o MCP_BEARER

\* A message of type tool_call.
IsInvocation(body) == body.shape = "dict" /\ body.type = PyStr(<<"tool_call">>)

\* An invocation of the tool `name`.
Invokes(body, name) ==
    IsInvocation(body) /\ body.tool.shape = "dict" /\ body.tool.name = PyStr(<<name>>)

\* Its arguments are an object (or the key is missing, which is an empty one).
HasArgumentObject(body) == body.tool.arguments.shape \in {"dict", "absent"}

\* The argument `key` of an invocation: Absent where the arguments lack it.
Argument(body, key) ==
    IF body.tool.arguments.shape = "dict" THEN body.tool.arguments[key] ELSE Absent

\* The id the caller gave the invocation (None where it gave none).
InvocationId(body) == IF body.id.ty = "absent" THEN PyNone ELSE body.id

\* The slot's one response is a ToolResult (HTTP 200).
RespondedToolResult(r) ==
    /\ pc[r] = "done"
    /\ Len(resp[r]) = 1
    /\ resp[r][1].status = 200
    /\ "type" \in DOMAIN resp[r][1].content
    /\ resp[r][1].content.type = "tool_result"

\* The slot's one response is a ToolResult that is an error naming `field`,
\* and no upstream request was sent.
ValidationError(r, field) ==
    /\ RespondedToolResult(r)
    /\ "success" \in DOMAIN resp[r][1].content.result
    /\ resp[r][1].content.result.success = FALSE
    /\ Contains(resp[r][1].content.result.error, <<field>>)
    /\ calls[r] = <<>>
    /\ "upstream" \notin ran[r]

\* C1: a request to GET /sse or POST /mcp whose Authorization header is absent,
\* lacks the "Bearer " prefix or carries another token than the secret ends
\* with 401, and nothing else runs for it: no request body is read, no message
\* handled, no tool run, no upstream request sent, no stream event yielded.
C1_UnauthorizedIsRejected ==
    \A r \in Slots :
        (req[r].path \in {"/sse", "/mcp"} /\ BadCredential(req[r].auth)) =>
            /\ pc[r] = "done"
            /\ Len(resp[r]) = 1
            /\ resp[r][1].status = 401
            /\ calls[r] = <<>>
            /\ events[r] = <<>>
            /\ ran[r] \subseteq {"bearer_auth", "mcp_endpoint"}

\* C1 witness: POST /mcp with another token and a list_workflows call is refused.
C1_Witness ==
    \E r \in Slots :
        /\ req[r].path = "/mcp"
        /\ req[r].auth = BearerPrefix \o <<"s", "2">>
        /\ Invokes(req[r].body, "list_workflows")
        /\ pc[r] = "done"
        /\ resp[r][1].status = 401

\* C2 (the claim as stated; the code violates it): every authenticated tool
\* invocation (a tool_call message whose tool is an object, or missing) gets
\* exactly one ToolResult, whose tool_call_id is the id of the invocation,
\* whatever the tool named, the arguments or the upstream do.
C2_EveryInvocationGetsItsResult ==
    \A r \in Slots :
        ( /\ Authenticated(r)
          /\ IsInvocation(req[r].body)
          /\ req[r].body.tool.shape \in {"dict", "absent"} ) =>
            /\ pc[r] \in {"upstream", "done"}
            /\ pc[r] = "upstream" => resp[r] = <<>>
            /\ pc[r] = "done" =>
                 /\ RespondedToolResult(r)
                 /\ resp[r][1].content.tool_call_id = InvocationId(req[r].body)

\* C3 (the claim as stated; the code violates it): whatever the tool, an
\* upstream response of status 400 or more gives a result that is not marked
\* success and whose payload holds the status code.
C3_UpstreamErrorIsAnErrorResult ==
    \A r \in Slots :
        ( /\ pc[r] = "done"
          /\ Len(replies[r]) = 1
          /\ replies[r][1].kind = "http"
          /\ replies[r][1].status >= 400 ) =>
            /\ RespondedToolResult(r)
            /\ resp[r][1].content.result.success = FALSE
            /\ Contains(resp[r][1].content.result.error, Digits(replies[r][1].status))

\* The path is absent, empty, or does not start with "/".
BadPath(path) ==
    \/ path.ty = "absent"
    \/ path.ty = "str" /\ (Len(path.v) = 0 \/ path.v[1] # "/")

\* C4: an invocation of run_webhook whose path argument is absent, empty or
\* does not start with "/" is answered with a validation error (an error
\* result about the path), and no upstream request is sent for it.
C4_BadWebhookPathIsRefused ==
    \A r \in Slots :
        ( /\ Authenticated(r)
          /\ Invokes(req[r].body, "run_webhook")
          /\ HasArgumentObject(req[r].body)
          /\ BadPath(Argument(req[r].body, "path")) ) =>
            ValidationError(r, "path")

\* C4 witness: a run_webhook with the path "hook" has been answered.
C4_Witness ==
    \E r \in Slots :
        /\ Authenticated(r)
        /\ Invokes(req[r].body, "run_webhook")
        /\ Argument(req[r].body, "path") = PyStr(Hook)
        /\ pc[r] = "done"

\* The argument each of the three tools requires.
RequiredArgument(name) == IF name = "create_workflow" THEN "workflow" ELSE "workflow_id"

\* An invocation of one of the three tools without its required argument.
MissesRequired(body, name) ==
    /\ Invokes(body, name)
    /\ HasArgumentObject(body)
    /\ Argument(body, RequiredArgument(name)).ty = "absent"

OnePatchActiveTrue(r, id) ==
    /\ pc[r] \in {"upstream", "done"}
    /\ Len(calls[r]) = 1
    /\ calls[r][1].method = "PATCH"
    /\ calls[r][1].url = N8N_URL \o <<"/rest/workflows", "/">> \o id
    /\ calls[r][1].body = <<"{", "active", ":", "true", "}">>

\* set_active with a workflow_id and no active argument.
SetActiveByDefault(body) ==
    /\ Invokes(body, "set_active")
    /\ body.tool.arguments.shape = "dict"
    /\ body.tool.arguments.workflow_id.ty # "absent"
    /\ body.tool.arguments.active.ty = "absent"

\* C6 (the claim as stated; violated): set_active with workflow_id present and
\* active omitted sends exactly one PATCH, of {"active": true}, to the
\* workflow's resource.
C6_Original ==
    \A r \in Slots :
        (Authenticated(r) /\ SetActiveByDefault(req[r].body)) =>
            OnePatchActiveTrue(r, req[r].body.tool.arguments.workflow_id.v)

\* C6 (amended): set_active with a workflow_id that is present and not empty,
\* and active omitted, sends exactly one PATCH, of {"active": true}, to the
\* workflow's resource; with the empty workflow_id "" no request is sent.
C6_ActiveDefaultsToTrue ==
    \A r \in Slots :
        (Authenticated(r) /\ SetActiveByDefault(req[r].body)) =>
            IF req[r].body.tool.arguments.workflow_id.v # <<>>
            THEN OnePatchActiveTrue(r, req[r].body.tool.arguments.workflow_id.v)
            ELSE ValidationError(r, "workflow_id")

\* C6 witness: the PATCH of a set_active of workflow w1 with no active
\* argument has been answered.
C6_Witness ==
    \E r \in Slots :
        /\ Authenticated(r)
        /\ SetActiveByDefault(req[r].body)
        /\ req[r].body.tool.arguments.workflow_id = W1
        /\ pc[r] = "done"
        /\ Len(replies[r]) = 1

\* C7: every upstream request sent for list_workflows, create_workflow,
\* set_active or delete_workflow carries the X-N8N-API-KEY header, and every
\* upstream request sent for run_webhook carries none.
C7_ApiKeyOnManagementCallsOnly ==
    \A r \in Slots :
        \A i \in 1..Len(calls[r]) :
            /\ (\E name \in {"list_workflows", "create_workflow", "set_active",
                             "delete_workflow"} : Invokes(req[r].body, name))
                 => /\ "X-N8N-API-KEY" \in DOMAIN calls[r][i].headers
                    /\ calls[r][i].headers["X-N8N-API-KEY"] = N8N_API_KEY
            /\ Invokes(req[r].body, "run_webhook")
                 => "X-N8N-API-KEY" \notin DOMAIN calls[r][i].headers

\* C7 witness: the upstream request of a run_webhook is in flight.
C7_Witness ==
    \E r \in Slots :
        /\ Invokes(req[r].body, "run_webhook")
        /\ pc[r] = "upstream"
        /\ Len(calls[r]) = 1
        /\ calls[r][1].url = N8N_URL \o <<"/">> \o Hook

\* C8: no invocation sends more than one upstream request, whether the request
\* succeeds, is answered with a status of 400 or more, or fails: a request is
\* answered at most once and is never sent again.
C8_NoRetry ==
    \A r \in Slots :
        /\ Len(calls[r]) <= 1
        /\ Len(replies[r]) <= Len(calls[r])
        /\ (pc[r] = "done" /\ "upstream" \in ran[r]) =>
               Len(calls[r]) = 1 /\ Len(replies[r]) = 1

\* C8 witness: an invocation whose upstream request failed has been answered.
C8_Witness ==
    \E r \in Slots :
        /\ pc[r] = "done"
        /\ Len(calls[r]) = 1
        /\ Len(replies[r]) = 1
        /\ replies[r][1].kind = "fail"

\* C9 (the claim as stated; the code violates it): the first event of an
\* accepted stream announces the registered tools with their schemas, and no
\* later event of the stream is an announcement.
C9_FirstEventAnnouncesTheTools ==
    \A r \in Slots :
        Len(events[r]) >= 1 =>
            /\ events[r][1].kind = "data"
            /\ events[r][1].data.capabilities.tools.ty = "list"
            /\ events[r][1].data.capabilities.tools.v = ToolRegistry
            /\ \A i \in 2..Len(events[r]) : events[r][i].kind # "data"

\* C10 (the claim as stated; the code violates it): when the caller
\* disconnects during the keep-alive wait, the stream yields no further event,
\* in particular no keep-alive comment.
C10_NoKeepAliveAfterDisconnect ==
    \A r \in Slots : "comment" \notin late[r]

\* The result list_workflows owes to the upstream's reply: the list the
\* upstream sent, or an error.
ListingOf(reply, result) ==
    /\ "success" \in DOMAIN result
    /\ IF reply.kind = "http" /\ reply.status = 200
       THEN /\ result.success = TRUE
            /\ result.data.ty = "list"
            /\ <<"[">> \o result.data.v \o <<"]">> = reply.text
       ELSE /\ result.success = FALSE
            /\ reply.kind = "http" => Contains(result.error, reply.text)

\* C11: with several list_workflows invocations in flight at once, under every
\* interleaving of their upstream requests and replies, each is answered with
\* a ToolResult that carries its own id and the listing of the reply to its
\* own upstream request, and none waits for another: while one awaits its
\* reply, that reply can arrive and be answered whatever the others do.
C11_ConcurrentListingsAreIndependent ==
    \A r \in ConcSlots :
        (Authenticated(r) /\ Invokes(req[r].body, "list_workflows")) =>
            /\ pc[r] \in {"upstream", "done"}
            /\ Len(calls[r]) = 1
            /\ calls[r][1].method = "GET"
            /\ pc[r] = "upstream" => resp[r] = <<>> /\ ENABLED UpstreamReply(r)
            /\ pc[r] = "done" =>
                 /\ RespondedToolResult(r)
                 /\ resp[r][1].content.tool_call_id = req[r].body.id
                 /\ Len(replies[r]) = 1
                 /\ ListingOf(replies[r][1], resp[r][1].content.result)

\* C11 witness: two list_workflows invocations with different ids are in
\* flight at the same time, each awaiting the reply to its own GET.
C11_Witness ==
    \E r, q \in ConcSlots :
        /\ r # q
        /\ Authenticated(r) /\ Invokes(req[r].body, "list_workflows")
        /\ Authenticated(q) /\ Invokes(req[q].body, "list_workflows")
        /\ req[r].body.id = PyStr(<<"a">>)
        /\ req[q].body.id = PyStr(<<"b">>)
        /\ pc[r] = "upstream"
        /\ pc[q] = "upstream"

\* A malformed body: no JSON, JSON but no object, or a tool_call message whose
\* tool is no object or whose arguments are no object.
Malformed(body) ==
    \/ body.shape \in {"badjson", "list"}
    \/ /\ IsInvocation(body)
       /\ \/ body.tool.shape \in {"str", "null"}
          \/ body.tool.shape = "dict" /\ body.tool.arguments.shape \in {"null", "list"}

\* C12 (the claim as stated; the code violates it): an authenticated POST /mcp
\* with a malformed body is answered below HTTP 500 with an error result in the
\* payload, and no upstream request is sent for it.
C12_MalformedBodyIsAValidationError ==
    \A r \in Slots :
        (Authenticated(r) /\ Malformed(req[r].body)) =>
            /\ pc[r] = "done"
            /\ calls[r] = <<>>
            /\ Len(resp[r]) = 1
            /\ resp[r][1].status < 500
            /\ "type" \in DOMAIN resp[r][1].content
            /\ resp[r][1].content.type = "tool_result"
            /\ "success" \in DOMAIN resp[r][1].content.result
            /\ resp[r][1].content.result.success = FALSE

\* C13: GET / and GET /health are served whatever the Authorization header
\* (none included), never with 401, and two processes whose configurations
\* differ only in the values of the API key and of the bearer secret (keys
\* that an HTTP header can carry, set or unset in both), given the same
\* requests and the same upstream replies, send the same responses.
C13_InfoIndependentOfSecrets ==
    /\ resp["first"] = resp["second"]
    /\ \A p \in Runs :
         /\ \A i \in 1..Len(resp[p]) : resp[p][i].status # 401
         /\ pc[p] = "done" => Len(resp[p]) = 1

\* C13 witness: /health, asked without a credential, has answered "healthy"
\* in two processes whose keys and secrets both differ.
C13_Witness ==
    /\ config["first"].N8N_API_KEY # config["second"].N8N_API_KEY
    /\ config["first"].MCP_BEARER # config["second"].MCP_BEARER
    /\ \A p \in Runs :
         /\ req[p].path = "/health"
         /\ req[p].auth = NoAuth
         /\ pc[p] = "done"
         /\ Len(resp[p]) = 1
         /\ resp[p][1].status = 200

\* The stream of the slot is open: accepted, and its generator not finished.
StreamOpen(r) == pc[r] \in {"announce", "check", "sleep"}

\* The slot holds an invocation answered with an error result.
ToolError(q) ==
    /\ req[q].path = "/mcp"
    /\ pc[q] = "done"
    /\ resp[q][1].status = 200
    /\ resp[q][1].content.type = "tool_result"
    /\ "error" \in DOMAIN resp[q][1].content.result

\* C14: no step ends an open stream unless its caller has disconnected; in
\* particular an invocation that ends in a validation error, an upstream error
\* or an unknown-tool error leaves every open stream open.
C14_ToolErrorsNeverEndAStream ==
    [][\A r \in ConcSlots : (StreamOpen(r) /\ ~StreamOpen(r)') => disconnected[r]]_vars

\* C14 witness: an invocation was answered with the error of the upstream
\* while a stream was listening, and that stream, its caller connected, has
\* yielded a keep-alive and stands at the top of its loop.
C14_Witness ==
    \E r, q \in ConcSlots :
        /\ pc[r] = "check"
        /\ ~disconnected[r]
        /\ Len(events[r]) >= 2
        /\ ToolError(q)
        /\ r \in audience[q]
        /\ Len(replies[q]) = 1
        /\ replies[q][1].kind = "http"
        /\ replies[q][1].status = 404

\* The invocation names no registered tool: its tool is an object whose name
\* is missing, no string, or a string that is none of the five names.
NamesUnregisteredTool(body) ==
    /\ IsInvocation(body)
    /\ body.tool.shape = "dict"
    /\ ~(body.tool.name.ty = "str" /\ Len(body.tool.name.v) = 1
                                   /\ body.tool.name.v[1] \in ToolNames)

\* C15: an invocation that names a tool other than the five registered ones is
\* answered with a ToolResult that carries the invocation's id and whose
\* result is the error "Unknown tool: <name>", and no tool runs and no
\* upstream request is sent for it.
C15_UnknownToolIsAnErrorResult ==
    \A r \in Slots :
        (Authenticated(r) /\ NamesUnregisteredTool(req[r].body)) =>
            /\ RespondedToolResult(r)
            /\ resp[r][1].content.tool_call_id = InvocationId(req[r].body)
            /\ DOMAIN resp[r][1].content.result = {"error"}
            /\ startswith(resp[r][1].content.result.error, <<"Unknown tool: ">>)
            /\ Contains(resp[r][1].content.result.error,
                        IF req[r].body.tool.name.ty = "absent" THEN <<"None">>
                        ELSE req[r].body.tool.name.v)
            /\ calls[r] = <<>>
            /\ ran[r] \cap {"tool", "upstream"} = {}

\* C15 witness: the invocation of "bogus" with the id "a" has been answered.
C15_Witness ==
    \E r \in Slots :
        /\ Authenticated(r)
        /\ Invokes(req[r].body, "bogus")
        /\ pc[r] = "done"
        /\ resp[r][1].content.tool_call_id = PyStr(<<"a">>)

\* An argument of the invocation is present but not of the type the tool's
\* schema gives it.
WrongType(body) ==
    \/ /\ Invokes(body, "create_workflow")
       /\ Argument(body, "workflow").ty \notin {"absent", "dict"}
    \/ /\ Invokes(body, "set_active")
       /\ \/ Argument(body, "workflow_id").ty \notin {"absent", "str"}
          \/ Argument(body, "active").ty \notin {"absent", "bool"}
    \/ /\ Invokes(body, "run_webhook")
       /\ Argument(body, "payload").ty \notin {"absent", "dict"}

\* C16 (the claim as stated; the code violates it): an invocation with an
\* argument of the wrong type is answered with an error result and no upstream
\* request is sent for it, while an argument the tool does not know (a path
\* given to create_workflow) is accepted.
C16_WrongTypeIsAValidationError ==
    \A r \in Slots :
        Authenticated(r) =>
            /\ WrongType(req[r].body) =>
                 /\ calls[r] = <<>>
                 /\ RespondedToolResult(r)
                 /\ resp[r][1].content.result.success = FALSE
            /\ ( /\ Invokes(req[r].body, "create_workflow")
                 /\ Argument(req[r].body, "workflow").ty = "dict"
                 /\ Truthy(Argument(req[r].body, "workflow"))
                 /\ Argument(req[r].body, "path").ty # "absent" ) =>
                     Len(calls[r]) = 1

\* The slot holds an answered delete_workflow of the workflow w.
DeletedBy(r, w) ==
    /\ pc[r] = "done"
    /\ Invokes(req[r].body, "delete_workflow")
    /\ Argument(req[r].body, "workflow_id") = w

\* The response of the slot is the acknowledgement of a delete: a success
\* result with the status code of the upstream.
DeleteAcknowledged(r) ==
    /\ RespondedToolResult(r)
    /\ resp[r][1].content.result.success = TRUE
    /\ resp[r][1].content.result.data.ok = TRUE
    /\ resp[r][1].content.result.data.status = 200

\* The response of the slot is an error result with the status and the body
\* of the upstream's not-found response.
DeleteNotFound(r) ==
    /\ RespondedToolResult(r)
    /\ resp[r][1].content.result.success = FALSE
    /\ Contains(resp[r][1].content.result.error, <<"4", "0", "4">>)
    /\ Contains(resp[r][1].content.result.error, NotFound404.text)

\* C17: of the invocations of delete_workflow on one id that have been
\* answered, exactly one (the first the upstream served) got the success
\* acknowledgement with the status code, and every other one got an error
\* result with the status and the body of the upstream's not-found response;
\* each is answered with HTTP 200 and a ToolResult, never with a fault.
C17_RepeatedDeleteIsNotFound ==
    \A w \in {W1, W2} :
        LET done == { r \in DelSlots : DeletedBy(r, w) }
        IN  /\ \A r \in done : DeleteAcknowledged(r) \/ DeleteNotFound(r)
            /\ done # {} => Cardinality({ r \in done : DeleteAcknowledged(r) }) = 1
            /\ \A r \in DelSlots : Len(resp[r]) <= 1

\* C17 witness: delete_workflow of w1 has been answered three times, once
\* with the acknowledgement and twice with the not-found error.
C17_Witness ==
    \E r \in DelSlots :
        /\ DeletedBy(r, W1) /\ DeleteAcknowledged(r)
        /\ Cardinality({ q \in DelSlots : DeletedBy(q, W1) /\ DeleteNotFound(q) }) >= 2

\* The slot holds a ToolResult that was made while the stream r was listening
\* and that r has not yielded.
ResultPending(q, r) ==
    /\ req[q].path = "/mcp"
    /\ pc[q] = "done"
    /\ resp[q][1].status = 200
    /\ resp[q][1].content.type = "tool_result"
    /\ r \in audience[q]
    /\ \A i \in 1..Len(events[r]) : events[r][i] # DataEvent(resp[q][1].content)

\* C18 (the claim as stated; the code violates it): after the announcement,
\* each event a connected stream yields is added at the end of its events, and
\* it is the result event of a ToolResult that is ready for the caller, where
\* there is one, and the payload-less keep-alive comment only where there is
\* none (the interval elapsed first); and the loop never ends while the caller
\* is connected.
C18_StreamDeliversResultsAndHeartbeats ==
    [][\A r \in ConcSlots :
          (StreamOpen(r) /\ ~disconnected[r] /\ Len(events[r]) >= 1) =>
              /\ StreamOpen(r)'
              /\ events'[r] # events[r] =>
                    /\ Len(events'[r]) = Len(events[r]) + 1
                    /\ SubSeq(events'[r], 1, Len(events[r])) = events[r]
                    /\ IF \E q \in ConcSlots : ResultPending(q, r)
                       THEN \E q \in ConcSlots :
                                /\ ResultPending(q, r)
                                /\ events'[r][Len(events'[r])] = DataEvent(resp[q][1].content)
                       ELSE events'[r][Len(events'[r])] = KeepAlive]_vars

\* The message {"type": "initialize"}.
Initialize == Message(PyStr(<<"initialize">>), Absent, OtherTool("absent"))

\* The tools of an "initialized" message, and their names.
AnnouncedIn(content) == content.capabilities.tools
NamesOf(tools) == { tools[i].name : i \in 1..Len(tools) }
EntryOf(tools, name) == tools[CHOOSE i \in 1..Len(tools) : tools[i].name = name]

\* What the handler announces.
Announced == AnnouncedIn(handle_mcp_message(Initialize).body)

\* The invocation names the tool by one string, and its arguments are an
\* object (or missing).
WellFormedCall(body) ==
    /\ IsInvocation(body)
    /\ body.tool.shape = "dict"
    /\ body.tool.name.ty = "str"
    /\ Len(body.tool.name.v) = 1
    /\ HasArgumentObject(body)

\* The response of the slot is the "Unknown tool" result.
AnsweredUnknownTool(r) ==
    /\ RespondedToolResult(r)
    /\ DOMAIN resp[r][1].content.result = {"error"}
    /\ startswith(resp[r][1].content.result.error, <<"Unknown tool: ">>)

\* The argument is one the tool takes as it is: a workflow that is not empty,
\* an id that is not empty, a path that starts with "/".
Usable(key, value) ==
    CASE key = "path" -> value.ty = "str" /\ startswith(value.v, <<"/">>)
      [] key \in {"workflow", "workflow_id"} -> Truthy(value)
      [] OTHER -> TRUE

\* C19: the registry announced for "initialize" and the dispatcher agree. An
\* initialize message is answered, at any time, with the same five tools; an
\* invocation is answered "Unknown tool" exactly if its tool is not announced;
\* an invocation of an announced tool that lacks an argument announced as
\* required is refused with an error naming it and without an upstream
\* request, and one that lacks only arguments not announced as required (its
\* required ones being usable) is dispatched to the upstream.
C19_RegistryAgreesWithDispatcher ==
    \A r \in Slots :
        Authenticated(r) =>
            /\ req[r].body = Initialize =>
                 /\ pc[r] = "done"
                 /\ calls[r] = <<>>
                 /\ resp[r][1].content.type = "initialized"
                 /\ NamesOf(AnnouncedIn(resp[r][1].content)) =
                        {"list_workflows", "create_workflow", "set_active",
                         "delete_workflow", "run_webhook"}
                 /\ Len(AnnouncedIn(resp[r][1].content)) = 5
            /\ WellFormedCall(req[r].body) =>
                 LET name == req[r].body.tool.name.v[1]
                 IN  /\ pc[r] = "done" =>
                           (AnsweredUnknownTool(r) <=> name \notin NamesOf(Announced))
                     /\ pc[r] = "upstream" => name \in NamesOf(Announced)
                     /\ name \in NamesOf(Announced) =>
                           LET entry == EntryOf(Announced, name)
                           IN  \A key \in DOMAIN entry.properties :
                                   Argument(req[r].body, key).ty = "absent" =>
                                       IF key \in entry.required
                                       THEN ValidationError(r, key)
                                       ELSE (\A k \in entry.required :
                                                Usable(k, Argument(req[r].body, k)))
                                            => Len(calls[r]) = 1

\* C19 witness: run_webhook, called with a path and no payload (announced,
\* but not as required), has been dispatched and answered.
C19_Witness ==
    \E r \in Slots :
        /\ Authenticated(r)
        /\ Invokes(req[r].body, "run_webhook")
        /\ Argument(req[r].body, "path") = PyStr(<<"/">> \o Hook)
        /\ Argument(req[r].body, "payload").ty = "absent"
        /\ pc[r] = "done"
        /\ Len(calls[r]) = 1

\* C20: an authenticated message of type "initialize", or of any type but
\* "initialize" and "tool_call" (a message with no type included), is
\* answered without a tool being run or an upstream request being sent, the
\* latter with an error message and no tool result; an upstream request is
\* sent only for a tool_call message that names one of the five tools and
\* whose required arguments are usable.
C20_OnlyToolCallsReachTheUpstream ==
    \A r \in Slots :
        /\ ( /\ Authenticated(r)
             /\ req[r].body.shape = "dict"
             /\ req[r].body.type # PyStr(<<"tool_call">>) ) =>
                /\ pc[r] = "done"
                /\ calls[r] = <<>>
                /\ ran[r] \cap {"tool", "upstream"} = {}
                /\ Len(resp[r]) = 1
                /\ resp[r][1].status = 200
                /\ IF req[r].body.type = PyStr(<<"initialize">>)
                   THEN resp[r][1].content.type = "initialized"
                   ELSE /\ resp[r][1].content.type = "error"
                        /\ DOMAIN resp[r][1].content = {"type", "error"}
                        /\ startswith(resp[r][1].content.error, <<"Unknown message type: ">>)
        /\ calls[r] # <<>> =>
              /\ Authenticated(r)
              /\ \E i \in 1..Len(ToolRegistry) :
                    /\ Invokes(req[r].body, ToolRegistry[i].name)
                    /\ \A k \in ToolRegistry[i].required :
                          Usable(k, Argument(req[r].body, k))

\* C20 witness: a message without a type that holds the tool object of a
\* list_workflows call has been answered.
C20_Witness ==
    \E r \in Slots :
        /\ Authenticated(r)
        /\ req[r].body.shape = "dict"
        /\ req[r].body.type.ty = "absent"
        /\ req[r].body.tool.shape = "dict"
        /\ req[r].body.tool.name = PyStr(<<"list_workflows">>)
        /\ pc[r] = "done"

====
